---- MODULE Spec2Model ----
(***************************************************************************)
(* Model of tensorflow/python/tools/api/generator2/generator/generator.py: *)
(* the aggregation of exported symbols into per-module entrypoints         *)
(* (get_public_api), the rendering of one module (_get_imports_for_module, *)
(* _gen_init_files) and the driver that renders the root tree, the compat  *)
(* trees and the nested compat trees (gen_public_api,                      *)
(* gen_nested_compat_files).                                               *)
(*                                                                         *)
(* Python strings are sequences of one-character strings, with Python's    *)
(* 0-based indices in find/rfind/slices.  A dict is a function whose       *)
(* DOMAIN is its key set; a defaultdict(set) inserts an empty set for a    *)
(* missing key when it is indexed.                                         *)
(***************************************************************************)
EXTENDS Integers, Sequences, FiniteSets, TLC

\* ------------------------------------------------------------------------
\* Bounds of the model
\* ------------------------------------------------------------------------
MaxCompat == 2
MaxDocs == 2
MaxSymbols == 2
MaxRenders == 2

\* ------------------------------------------------------------------------
\* Python str operations
\* ------------------------------------------------------------------------
\* Characters in code point order (ASCII), for str comparison in sorted().
CharOrder ==
  << ".", "/", "1", "2", "B", "X", "Y", "_", "a", "b", "c", "d", "e", "f",
     "g", "i", "l", "m", "n", "o", "p", "r", "s", "t", "v", "w", "y", "z" >>

Ord(c) == CHOOSE i \in 1..Len(CharOrder) : CharOrder[i] = c

\* a < b for str
RECURSIVE StrLess(_, _)
StrLess(a, b) ==
  IF b = <<>> THEN FALSE
  ELSE IF a = <<>> THEN TRUE
  ELSE IF a[1] = b[1] THEN StrLess(Tail(a), Tail(b))
  ELSE Ord(a[1]) < Ord(b[1])

\* s[i:j] with 0 <= i
Slice(s, i, j) == SubSeq(s, i + 1, j)

\* s[i:]
SliceFrom(s, i) == SubSeq(s, i + 1, Len(s))

\* s.find(c) for a one-character c: 0-based index of the first c, or -1
Find(s, c) ==
  IF \E i \in 1..Len(s) : s[i] = c
  THEN (CHOOSE i \in 1..Len(s) : s[i] = c /\ \A j \in 1..(i - 1) : s[j] # c) - 1
  ELSE -1

\* s.rfind(c) for a one-character c: 0-based index of the last c, or -1
RFind(s, c) ==
  IF \E i \in 1..Len(s) : s[i] = c
  THEN (CHOOSE i \in 1..Len(s) :
          s[i] = c /\ \A j \in (i + 1)..Len(s) : s[j] # c) - 1
  ELSE -1

StartsWith(s, p) == Len(p) <= Len(s) /\ SubSeq(s, 1, Len(p)) = p

EndsWith(s, p) ==
  Len(p) <= Len(s) /\ SubSeq(s, Len(s) - Len(p) + 1, Len(s)) = p

RemovePrefix(s, p) == IF StartsWith(s, p) THEN SliceFrom(s, Len(p)) ELSE s

RemoveSuffix(s, p) ==
  IF EndsWith(s, p) THEN SubSeq(s, 1, Len(s) - Len(p)) ELSE s

\* s.strip(c) for a one-character c
RECURSIVE LStrip(_, _)
LStrip(s, c) == IF s # <<>> /\ s[1] = c THEN LStrip(Tail(s), c) ELSE s

RECURSIVE RStrip(_, _)
RStrip(s, c) ==
  IF s # <<>> /\ s[Len(s)] = c THEN RStrip(SubSeq(s, 1, Len(s) - 1), c) ELSE s

Strip(s, c) == RStrip(LStrip(s, c), c)

\* s.replace(old, new): every non-overlapping occurrence, left to right
RECURSIVE Replace(_, _, _)
Replace(s, old, new) ==
  IF s = <<>> THEN <<>>
  ELSE IF old # <<>> /\ StartsWith(s, old)
       THEN new \o Replace(SliceFrom(s, Len(old)), old, new)
       ELSE <<s[1]>> \o Replace(Tail(s), old, new)

\* f'{n}' for the version numbers in use
IntStr(n) == IF n = 1 THEN <<"1">> ELSE <<"2">>

\* os.path.join(a, b) for a relative b
PathJoin(a, b) == IF a # <<>> /\ a[Len(a)] = "/" THEN a \o b ELSE a \o <<"/">> \o b

\* ------------------------------------------------------------------------
\* String literals of the source
\* ------------------------------------------------------------------------
DOT == "."
SLASH == "/"
PY_SUFFIX == <<".", "p", "y">>
INIT_BASENAME == <<"_", "_", "i", "n", "i", "t", "_", "_">>
COMPAT == <<"c", "o", "m", "p", "a", "t">>
COMPAT_V1_DIR == <<"c", "o", "m", "p", "a", "t", "/", "v", "1">>
TENSORFLOW == <<"t", "e", "n", "s", "o", "r", "f", "l", "o", "w">>
TF == <<"t", "f">>
LITE == <<"l", "i", "t", "e">>
INIT_PY == "__init__.py"

\* ------------------------------------------------------------------------
\* dict / defaultdict(set)
\* ------------------------------------------------------------------------
EmptyMap == [k \in {} |-> {}]

\* d[k] of a defaultdict(set), value only
DefaultGet(d, k) == IF k \in DOMAIN d THEN d[k] ELSE {}

\* the dict after d[k] was evaluated for every k in K (missing keys inserted)
Touch(d, K) == [k \in (DOMAIN d) \cup K |-> DefaultGet(d, k)]

\* the dict after del d[k] for every k in K
DelKeys(d, K) == [k \in (DOMAIN d) \ K |-> d[k]]

\* ------------------------------------------------------------------------
\* _get_import_path, _should_skip_file
\* ------------------------------------------------------------------------
RECURSIVE StripPrefixes(_, _)
StripPrefixes(path, prefixes) ==
  IF prefixes = <<>> THEN path
  ELSE StripPrefixes(RemovePrefix(path, Head(prefixes)), Tail(prefixes))

SlashesToDots(s) == [i \in 1..Len(s) |-> IF s[i] = SLASH THEN DOT ELSE s[i]]

_get_import_path(file, file_prefixes_to_strip, module_prefix) ==
  LET p1 == StripPrefixes(file, file_prefixes_to_strip)
      p2 == RemoveSuffix(p1, PY_SUFFIX)
      p3 == RemoveSuffix(p2, INIT_BASENAME)
      p4 == Strip(p3, SLASH)
      p5 == SlashesToDots(p4)
  IN  module_prefix \o p5

\* faulty variant: an ignored package must equal the import path (no prefix match)
_should_skip_file_exact(file, file_prefixes_to_strip, packages_to_ignore, module_prefix) ==
  LET import_path == _get_import_path(file, file_prefixes_to_strip, module_prefix)
  IN  \E i \in 1..Len(packages_to_ignore) : import_path = packages_to_ignore[i]

_should_skip_file(file, file_prefixes_to_strip, packages_to_ignore, module_prefix) ==
  LET import_path == _get_import_path(file, file_prefixes_to_strip, module_prefix)
  IN  \E i \in 1..Len(packages_to_ignore) :
        StartsWith(import_path, packages_to_ignore[i])

\* ------------------------------------------------------------------------
\* Inputs: exported symbols, docs and arguments
\* ------------------------------------------------------------------------
S_ns == <<"n", "s">>
S_p_dot == <<"p", ".">>
S_g_slash == <<"g", "/">>
S_foo == <<"f", "o", "o">>
S_Baz == <<"B", "a", "z">>
S_ns_widgets == <<"n", "s", ".", "w", "i", "d", "g", "e", "t", "s">>
S_ns_a == <<"n", "s", ".", "a">>
S_ns_a_b == <<"n", "s", ".", "a", ".", "b">>
S_out == <<"o">>

\* exported_api.ExportedSymbol records (file_name, symbol_name, line_no,
\* v1_apis, v2_apis)
SymBaz ==
  [ file_name |-> <<"f", "o", "o", "/", "b", "a", "r", ".", "p", "y">>,
    symbol_name |-> S_Baz, line_no |-> 1,
    v1_apis |-> <<>>,
    v2_apis |-> << <<"v", "2", ".", "w", "i", "d", "g", "e", "t", "s", ".", "B", "a", "z">> >> ]

SymX ==
  [ file_name |-> <<"a", "/", "b", ".", "p", "y">>,
    symbol_name |-> <<"X">>, line_no |-> 2,
    v1_apis |-> << <<"v", "1", ".", "a", ".", "b", ".", "X">> >>,
    v2_apis |-> << <<"v", "2", ".", "a", ".", "b", ".", "X">> >> ]

\* exposed in the compat module itself, under a name other than its own
SymY ==
  [ file_name |-> <<"c", ".", "p", "y">>,
    symbol_name |-> <<"Y">>, line_no |-> 3,
    v1_apis |-> << <<"v", "1", ".", "c", "o", "m", "p", "a", "t", ".", "y">> >>,
    v2_apis |-> << <<"v", "2", ".", "c", "o", "m", "p", "a", "t", ".", "y">> >> ]

\* names with zero dots, one dot and two adjacent dots; an index file under a
\* prefix that may be stripped
SymZ ==
  [ file_name |-> <<"g", "/", "f", "o", "o", "/", "_", "_", "i", "n", "i", "t", "_", "_", ".", "p", "y">>,
    symbol_name |-> <<"Z">>, line_no |-> 4,
    v1_apis |-> << <<"Z">> >>,
    v2_apis |-> << <<"v", "2", ".", "Z">>, <<"v", "2", ".", ".", "z">> >> ]

\* a second symbol of foo/bar.py, exposed in the same module as Baz
SymB ==
  [ file_name |-> <<"f", "o", "o", "/", "b", "a", "r", ".", "p", "y">>,
    symbol_name |-> <<"B">>, line_no |-> 5,
    v1_apis |-> << <<"v", "1", ".", "a", ".", "B">> >>,
    v2_apis |-> << <<"v", "2", ".", "w", "i", "d", "g", "e", "t", "s", ".", "B">> >> ]

\* exposed in the output package itself under the name lite, and as a member
\* of the module lite below it
SymLite ==
  [ file_name |-> <<"l", ".", "p", "y">>,
    symbol_name |-> <<"L">>, line_no |-> 6,
    v1_apis |-> << <<"v", "1", ".", "l", "i", "t", "e">> >>,
    v2_apis |-> << <<"v", "2", ".", "l", "i", "t", "e">>,
                   <<"v", "2", ".", "l", "i", "t", "e", ".", "L">> >> ]

ViewSymbolPool == {SymBaz, SymX, SymY}
ApiSymbolPool == {SymBaz, SymX, SymZ, SymB, SymLite}

\* exported_api.ExportedDoc records (file_name, line_no, modules, docstring)
DocW == [file_name |-> "w.py", line_no |-> 1, modules |-> {S_ns_widgets}, docstring |-> "doc W"]
DocA == [file_name |-> "a.py", line_no |-> 2, modules |-> {S_ns_a, S_ns_a_b}, docstring |-> "doc A"]
DocWA == [file_name |-> "wa.py", line_no |-> 3, modules |-> {S_ns_widgets, S_ns_a}, docstring |-> "doc WA"]
DocPool == {DocW, DocA, DocWA}

SubsetsUpTo(S, n) == {T \in SUBSET S : Cardinality(T) <= n}

SeqsUpTo(S, n) == UNION {[1..k -> S] : k \in 0..n}

\* ------------------------------------------------------------------------
\* State
\* ------------------------------------------------------------------------
VARIABLES
  args,                               \* the arguments of gen_public_api and the records read from the mapping files
  pc,                                 \* position in gen_public_api
  error,                              \* the exception that ended the run, or "none"
  v1_entrypoints_by_module,           \* PublicAPI
  v2_entrypoints_by_module,
  v1_generated_imports_by_module,
  v2_generated_imports_by_module,
  docs_by_module,
  iter_order,                         \* iteration order of each set object, fixed while the set is unchanged
  compat_index,                       \* loop position, compat trees (1-based)
  nested_compat_index,                \* loop position, nested compat trees (1-based)
  nested_compat_symbols_by_module,    \* locals of gen_nested_compat_files
  nested_generated_imports_by_module,
  compat_imports_at_call,             \* the compat module's imports when gen_nested_compat_files was called
  files,                              \* file path -> content written
  dirs,                               \* directories created by gen_public_api itself
  written,                            \* which _gen_init_files call wrote a file for which module
  render_in,                          \* inputs of stand-alone renders of one module
  rendered                            \* outputs of stand-alone renders of one module

api_vars ==
  << v1_entrypoints_by_module, v2_entrypoints_by_module,
     v1_generated_imports_by_module, v2_generated_imports_by_module,
     docs_by_module >>

nested_vars ==
  << nested_compat_symbols_by_module, nested_generated_imports_by_module,
     compat_imports_at_call >>

out_vars == << files, dirs, written >>

render_vars == << render_in, rendered >>

vars ==
  << args, pc, error, api_vars, iter_order, compat_index, nested_compat_index,
     nested_vars, out_vars, render_vars >>

\* ------------------------------------------------------------------------
\* get_public_api
\* ------------------------------------------------------------------------
\* faulty variant: the comparison of the two dot positions without the + 1
Entrypoint_off_by_one(api_name, s, output_package) ==
  LET index_of_last_dot == RFind(api_name, DOT)
      index_of_first_dot == Find(api_name, DOT)
      module ==
        IF index_of_first_dot < index_of_last_dot
        THEN output_package \o <<DOT>>
               \o Slice(api_name, index_of_first_dot + 1, index_of_last_dot)
        ELSE output_package
      name == SliceFrom(api_name, index_of_last_dot + 1)
  IN  [module |-> module, name |-> name, exported_symbol |-> s]

\* one iteration of the loop of add_exported_symbols
Entrypoint(api_name, s, output_package) ==
  LET index_of_last_dot == RFind(api_name, DOT)
      index_of_first_dot == Find(api_name, DOT)
      module ==
        IF index_of_first_dot + 1 < index_of_last_dot
        THEN output_package \o <<DOT>>
               \o Slice(api_name, index_of_first_dot + 1, index_of_last_dot)
        ELSE output_package
      name == SliceFrom(api_name, index_of_last_dot + 1)
  IN  [module |-> module, name |-> name, exported_symbol |-> s]

add_exported_symbols(api_names, s, output_package) ==
  {Entrypoint(api_names[i], s, output_package) : i \in 1..Len(api_names)}

ApiNames(s, version) == IF version = 1 THEN s.v1_apis ELSE s.v2_apis

\* the loop over ea.symbols, for one version: entrypoints grouped by module
EntrypointsByModule(a, version) ==
  LET kept ==
        {s \in a.symbols :
           ~_should_skip_file(s.file_name, a.file_prefixes_to_strip,
                              a.packages_to_ignore, a.module_prefix)}
      all == UNION {add_exported_symbols(ApiNames(s, version), s, a.output_package) : s \in kept}
  IN  [m \in {e.module : e \in all} |-> {e \in all : e.module = m}]

\* faulty variant: only the edge from the immediate parent, no walk up to the root
AncestorEdges_parent_only(module) ==
  LET i == RFind(module, DOT)
  IN  IF i = -1 THEN {} ELSE {<<Slice(module, 0, i), module>>}

\* the while loop of add_generated_imports for one module: (parent, child) edges
RECURSIVE AncestorEdges(_)
AncestorEdges(module) ==
  LET i == RFind(module, DOT)
  IN  IF i = -1 THEN {}
      ELSE LET parent == Slice(module, 0, i)
           IN  {<<parent, module>>} \cup AncestorEdges(parent)

add_generated_imports(entrypoints_by_module) ==
  LET edges == UNION {AncestorEdges(m) : m \in DOMAIN entrypoints_by_module}
  IN  [p \in {e[1] : e \in edges} |-> {e[2] : e \in {f \in edges : f[1] = p}}]

\* faulty variant: a second binding silently replaces the first
RECURSIVE BindDocs_last_wins(_, _, _)
BindDocs_last_wins(docs, i, bound) ==
  IF i > Len(docs) THEN [raised |-> FALSE, docs_by_module |-> bound]
  ELSE LET d == docs[i]
       IN  BindDocs_last_wins(docs, i + 1,
                              [m \in (DOMAIN bound) \cup d.modules |->
                                 IF m \in d.modules THEN d.docstring ELSE bound[m]])

\* the loop over ea.docs from record i on; raised = DocExportedTwiceError
RECURSIVE BindDocs(_, _, _)
BindDocs(docs, i, bound) ==
  IF i > Len(docs) THEN [raised |-> FALSE, docs_by_module |-> bound]
  ELSE LET d == docs[i]
       IN  IF \E m \in d.modules : m \in DOMAIN bound
           THEN [raised |-> TRUE, docs_by_module |-> bound]
           ELSE BindDocs(docs, i + 1,
                         [m \in (DOMAIN bound) \cup d.modules |->
                            IF m \in d.modules THEN d.docstring ELSE bound[m]])

GetPublicApi ==
  /\ pc = "get_public_api"
  /\ LET e1 == EntrypointsByModule(args, 1)
         e2 == EntrypointsByModule(args, 2)
         r == BindDocs(args.docs, 1, [m \in {} |-> ""])
     IN  IF r.raised
         THEN /\ pc' = "failed"
              /\ error' = "DocExportedTwiceError"
              /\ UNCHANGED api_vars
         ELSE /\ pc' = "add_compat_edges"
              /\ v1_entrypoints_by_module' = e1
              /\ v2_entrypoints_by_module' = e2
              /\ v1_generated_imports_by_module' = add_generated_imports(e1)
              /\ v2_generated_imports_by_module' = add_generated_imports(e2)
              /\ docs_by_module' = r.docs_by_module
              /\ UNCHANGED error
  /\ UNCHANGED << args, iter_order, compat_index, nested_compat_index,
                  nested_vars, out_vars, render_vars >>

\* ------------------------------------------------------------------------
\* Iteration order of Python sets
\* ------------------------------------------------------------------------
\* A set is iterated in an order the inputs do not determine (it follows the
\* hashes of its elements); the same unchanged set object is iterated in the
\* same order every time.  iter_order remembers the order of each set object
\* of the PublicAPI maps that holds two elements or more.
Range(q) == {q[i] : i \in 1..Len(q)}

Perms(S) ==
  {q \in [1..Cardinality(S) -> S] : \A i, j \in 1..Cardinality(S) : q[i] = q[j] => i = j}

\* the orders in which set object k, now holding S, may be iterated
Orders(order, k, S) ==
  IF k \in DOMAIN order /\ Range(order[k]) = S THEN {order[k]} ELSE Perms(S)

EntrypointsKey(version, module) == <<"entrypoints", version, module>>

GeneratedImportsKey(version, module) == <<"generated_imports", version, module>>

\* ------------------------------------------------------------------------
\* Rendering one module
\* ------------------------------------------------------------------------
\* faulty variant: the lazy table is keyed by the symbol's own name
get_import_symbol_key(e, file_prefixes_to_strip, module_prefix, use_lazy_loading) ==
  LET module_import_path ==
        _get_import_path(e.exported_symbol.file_name, file_prefixes_to_strip, module_prefix)
      symbol_name == e.exported_symbol.symbol_name
      alias == IF e.name # symbol_name THEN <<e.name>> ELSE <<>>
  IN  IF ~use_lazy_loading
      THEN [kind |-> "from_import", module |-> module_import_path,
            name |-> symbol_name, alias |-> alias, key |-> <<>>,
            line_no |-> e.exported_symbol.line_no]
      ELSE [kind |-> "table_entry", module |-> module_import_path,
            name |-> symbol_name, alias |-> <<>>, key |-> <<symbol_name>>,
            line_no |-> e.exported_symbol.line_no]

\* _Entrypoint.get_import: one line of the import block (eager) or of the
\* _PUBLIC_APIS table (lazy).  alias and key are empty or hold one str.
get_import(e, file_prefixes_to_strip, module_prefix, use_lazy_loading) ==
  LET module_import_path ==
        _get_import_path(e.exported_symbol.file_name, file_prefixes_to_strip, module_prefix)
      symbol_name == e.exported_symbol.symbol_name
      alias == IF e.name # symbol_name THEN <<e.name>> ELSE <<>>
  IN  IF ~use_lazy_loading
      THEN [kind |-> "from_import", module |-> module_import_path,
            name |-> symbol_name, alias |-> alias, key |-> <<>>,
            line_no |-> e.exported_symbol.line_no]
      ELSE [kind |-> "table_entry", module |-> module_import_path,
            name |-> symbol_name, alias |-> <<>>, key |-> <<e.name>>,
            line_no |-> e.exported_symbol.line_no]

\* s[:j] for j >= -1
SliceTo(s, j) == IF j < 0 THEN SubSeq(s, 1, Len(s) + j) ELSE SubSeq(s, 1, j)

\* the line rendered for one generated import (child module)
ImportLine(imp0, output_package, use_lazy_loading, subpackage_rewrite) ==
  LET imp == IF subpackage_rewrite # <<>>
             THEN Replace(imp0, output_package, subpackage_rewrite)
             ELSE imp0
      last_dot == RFind(imp, DOT)
  IN  IF use_lazy_loading
      THEN [kind |-> "table_entry", module |-> <<>>, name |-> imp,
            alias |-> <<>>, key |-> <<SliceFrom(imp, last_dot + 1)>>, line_no |-> 0]
      ELSE [kind |-> "from_import", module |-> SliceTo(imp, last_dot),
            name |-> SliceFrom(imp, last_dot + 1), alias |-> <<>>, key |-> <<>>,
            line_no |-> 0]

\* sorted(symbol_imports, key=lambda s: s.exported_symbol.file_name): stable
RECURSIVE InsertByFile(_, _)
InsertByFile(sorted, e) ==
  IF sorted = <<>> THEN <<e>>
  ELSE IF StrLess(e.exported_symbol.file_name, Head(sorted).exported_symbol.file_name)
       THEN <<e>> \o sorted
       ELSE <<Head(sorted)>> \o InsertByFile(Tail(sorted), e)

RECURSIVE SortedByFile(_)
SortedByFile(list) ==
  IF list = <<>> THEN <<>>
  ELSE InsertByFile(SortedByFile(SubSeq(list, 1, Len(list) - 1)), list[Len(list)])

\* _get_imports_for_module, given the order in which the two sets are iterated
_get_imports_for_module(module, output_package, symbol_list, import_list, file_prefixes_to_strip, module_prefix, use_lazy_loading, subpackage_rewrite) ==
  LET symbol_imports == SortedByFile(symbol_list)
  IN  [i \in 1..Len(import_list) |->
         ImportLine(import_list[i], output_package, use_lazy_loading, subpackage_rewrite)]
      \o
      [i \in 1..Len(symbol_imports) |->
         get_import(symbol_imports[i], file_prefixes_to_strip, module_prefix, use_lazy_loading)]

\* the name a rendered line makes visible in the module
BoundName(line) ==
  IF line.kind = "table_entry" THEN line.key[1]
  ELSE IF line.alias # <<>> THEN line.alias[1] ELSE line.name

_get_module_docstring(docs, module) ==
  IF module \in DOMAIN docs
  THEN [registered |-> TRUE, text |-> docs[module], module |-> <<>>]
  ELSE [registered |-> FALSE, text |-> "Public API for %s namespace",
        module |-> Replace(module, TENSORFLOW, TF)]

NoWrapper ==
  [emitted |-> FALSE, module |-> <<>>, public_apis |-> "", deprecation |-> FALSE,
   has_lite |-> FALSE]

\* _get_module_wrapper; symbol_keys are the keys of symbols_by_module
_get_module_wrapper(module, output_dir, output_package, api_version, symbol_keys, use_lazy_loading) ==
  IF api_version # 1 /\ ~use_lazy_loading THEN NoWrapper
  ELSE [emitted |-> TRUE,
        module |-> Strip(RemovePrefix(module, output_package), DOT),
        public_apis |-> IF use_lazy_loading THEN "_PUBLIC_APIS" ELSE "None",
        deprecation |-> api_version = 1 /\ ~EndsWith(Strip(output_dir, SLASH), COMPAT_V1_DIR),
        has_lite |-> LITE \in symbol_keys /\ use_lazy_loading]

\* sorted() of a list of str
RECURSIVE InsertStr(_, _)
InsertStr(sorted, s) ==
  IF sorted = <<>> THEN <<s>>
  ELSE IF StrLess(s, Head(sorted)) THEN <<s>> \o sorted
       ELSE <<Head(sorted)>> \o InsertStr(Tail(sorted), s)

RECURSIVE SortedStrs(_)
SortedStrs(list) ==
  IF list = <<>> THEN <<>>
  ELSE InsertStr(SortedStrs(SubSeq(list, 1, Len(list) - 1)), list[Len(list)])

RECURSIVE FilterUnderscore(_)
FilterUnderscore(list) ==
  IF list = <<>> THEN <<>>
  ELSE (IF StartsWith(Head(list), <<"_">>) THEN <<Head(list)>> ELSE <<>>)
         \o FilterUnderscore(Tail(list))

\* _names_with_underscore of the root template footer
UnderscoreElements(symbol_list, import_list) ==
  SortedStrs(
    FilterUnderscore([i \in 1..Len(symbol_list) |-> symbol_list[i].name]
                     \o [i \in 1..Len(import_list) |->
                           SliceFrom(import_list[i], RFind(import_list[i], DOT) + 1)]))

\* ------------------------------------------------------------------------
\* _gen_init_files
\* ------------------------------------------------------------------------
\* the modules the loop does not skip
ModulesToRender(symbols_by_module, generated_imports_by_module, output_package) ==
  {m \in (DOMAIN symbols_by_module) \cup (DOMAIN generated_imports_by_module) :
     Len(m) >= Len(output_package)}

DotsToSlashes(s) == [i \in 1..Len(s) |-> IF s[i] = DOT THEN SLASH ELSE s[i]]

\* the file written for a module: its directory (no trailing '/') and its name
ModuleFilePath(module, output_dir, output_package, root_file_name) ==
  LET module_relative_to_package == SliceFrom(module, Len(output_package) + 1)
      module_path == PathJoin(output_dir, DotsToSlashes(module_relative_to_package))
  IN  << RStrip(module_path, SLASH),
         IF module_relative_to_package = <<>> THEN root_file_name ELSE INIT_PY >>

\* the content written for one module, given the iteration order of its sets
ModuleContent(module, output_dir, output_package, api_version, symbol_keys, symbol_list, import_list, docs, root_template_path, a, subpackage_rewrite) ==
  LET module_imports ==
        _get_imports_for_module(module, output_package, symbol_list, import_list,
                                a.file_prefixes_to_strip, a.module_prefix,
                                a.use_lazy_loading, subpackage_rewrite)
      wrapper ==
        _get_module_wrapper(module, output_dir, output_package, api_version,
                            symbol_keys \cup {module}, a.use_lazy_loading)
  IN  IF module = output_package /\ root_template_path # ""
      THEN [template |-> root_template_path,
            docstring |-> [registered |-> FALSE, text |-> "", module |-> <<>>],
            lazy |-> a.use_lazy_loading,
            imports |-> module_imports,
            names_with_underscore |-> UnderscoreElements(symbol_list, import_list),
            wrapper |-> wrapper]
      ELSE [template |-> "",
            docstring |-> _get_module_docstring(docs, module),
            lazy |-> a.use_lazy_loading,
            imports |-> module_imports,
            names_with_underscore |-> <<>>,
            wrapper |-> wrapper]

\* every way to pick, for each module of ms, the iteration orders of its
\* entrypoint set and of its generated-import set
RECURSIVE OrderChoices(_, _, _, _, _)
OrderChoices(ms, order, version, symbols_by_module, generated_imports_by_module) ==
  IF ms = {} THEN {<<>>}
  ELSE LET m == CHOOSE x \in ms : TRUE
           rest == OrderChoices(ms \ {m}, order, version, symbols_by_module,
                                generated_imports_by_module)
           syms == Orders(order, EntrypointsKey(version, m), DefaultGet(symbols_by_module, m))
           imps == Orders(order, GeneratedImportsKey(version, m),
                          DefaultGet(generated_imports_by_module, m))
       IN  {(m :> [symbol_list |-> s, import_list |-> i]) @@ r :
              s \in syms, i \in imps, r \in rest}

\* iter_order after the sets of the modules in DOMAIN choice were iterated
Remember(order, version, choice) ==
  LET ks == {EntrypointsKey(version, m) : m \in {x \in DOMAIN choice : Len(choice[x].symbol_list) >= 2}}
            \cup
            {GeneratedImportsKey(version, m) : m \in {x \in DOMAIN choice : Len(choice[x].import_list) >= 2}}
  IN  [k \in (DOMAIN order) \cup ks |->
         IF k \in ks
         THEN IF k[1] = "entrypoints" THEN choice[k[3]].symbol_list ELSE choice[k[3]].import_list
         ELSE order[k]]

\* files after one _gen_init_files call
WriteInitFiles(fs, choice, output_dir, api_version, symbol_keys, docs, root_template_path, a, subpackage_rewrite) ==
  LET path(m) == ModuleFilePath(m, output_dir, a.output_package, a.root_file_name)
      paths == {path(m) : m \in DOMAIN choice}
  IN  [p \in (DOMAIN fs) \cup paths |->
         IF p \in paths
         THEN LET m == CHOOSE x \in DOMAIN choice : path(x) = p
              IN  ModuleContent(m, output_dir, a.output_package, api_version, symbol_keys,
                                choice[m].symbol_list, choice[m].import_list, docs,
                                root_template_path, a, subpackage_rewrite)
         ELSE fs[p]]

\* ------------------------------------------------------------------------
\* gen_public_api
\* ------------------------------------------------------------------------
SymbolsOf(version) ==
  IF version = 1 THEN v1_entrypoints_by_module ELSE v2_entrypoints_by_module

ImportsOf(version) ==
  IF version = 1 THEN v1_generated_imports_by_module ELSE v2_generated_imports_by_module

\* which PublicAPI maps a tree of the given api version is rendered from
MapsVersion(api_version) == IF api_version = 1 THEN 1 ELSE 2

CompatModule(a) == a.output_package \o <<DOT>> \o COMPAT

CompatVersionPackage(a, n) == CompatModule(a) \o <<DOT, "v">> \o IntStr(n)

CompatOutputDir(a, n) == PathJoin(PathJoin(a.output_dir, COMPAT), <<"v">> \o IntStr(n))

NestedCompatOutputDir(a, n, m) ==
  PathJoin(PathJoin(CompatOutputDir(a, n), COMPAT), <<"v">> \o IntStr(m))

CompatPackages(a) ==
  {CompatVersionPackage(a, a.compat_api_versions[i]) : i \in 1..Len(a.compat_api_versions)}

\* the first loop over compat_api_versions, on one generated-imports map
WithCompatEdges(generated_imports_by_module, a) ==
  IF a.compat_api_versions = <<>> THEN generated_imports_by_module
  ELSE [k \in (DOMAIN generated_imports_by_module) \cup {CompatModule(a)} |->
          IF k = CompatModule(a)
          THEN DefaultGet(generated_imports_by_module, k) \cup CompatPackages(a)
          ELSE generated_imports_by_module[k]]

\* faulty variant: the edges are added to the version-2 map only
AddCompatEdges_v2_only ==
  /\ pc = "add_compat_edges"
  /\ v2_generated_imports_by_module' = WithCompatEdges(v2_generated_imports_by_module, args)
  /\ pc' = "gen_root"
  /\ UNCHANGED << args, error, v1_entrypoints_by_module, v2_entrypoints_by_module,
                  v1_generated_imports_by_module,
                  docs_by_module, iter_order, compat_index, nested_compat_index,
                  nested_vars, out_vars, render_vars >>

AddCompatEdges ==
  /\ pc = "add_compat_edges"
  /\ v2_generated_imports_by_module' = WithCompatEdges(v2_generated_imports_by_module, args)
  /\ v1_generated_imports_by_module' = WithCompatEdges(v1_generated_imports_by_module, args)
  /\ pc' = "gen_root"
  /\ UNCHANGED << args, error, v1_entrypoints_by_module, v2_entrypoints_by_module,
                  docs_by_module, iter_order, compat_index, nested_compat_index,
                  nested_vars, out_vars, render_vars >>

\* compat_init_templates[index] if compat_init_templates else ''   (index 1-based here)
TemplateIndexError(a, index) ==
  a.compat_init_templates # <<>> /\ index > Len(a.compat_init_templates)

CompatTemplate(a, index) ==
  IF a.compat_init_templates # <<>> THEN a.compat_init_templates[index] ELSE ""

\* what one _gen_init_files call leaves on disk and in iter_order
InitFilesWritten(choice, output_dir, api_version, version, symbol_keys, root_template_path, subpackage_rewrite) ==
  /\ files' = WriteInitFiles(files, choice, output_dir, api_version, symbol_keys,
                             docs_by_module, root_template_path, args, subpackage_rewrite)
  /\ iter_order' = Remember(iter_order, version, choice)
  /\ written' = written \cup {<<output_dir, m>> : m \in DOMAIN choice}

\* the PublicAPI maps of one version after a _gen_init_files call indexed them
MapsTouched(version, ms) ==
  /\ v1_entrypoints_by_module' =
       IF version = 1 THEN Touch(v1_entrypoints_by_module, ms) ELSE v1_entrypoints_by_module
  /\ v2_entrypoints_by_module' =
       IF version = 2 THEN Touch(v2_entrypoints_by_module, ms) ELSE v2_entrypoints_by_module
  /\ v1_generated_imports_by_module' =
       IF version = 1 THEN Touch(v1_generated_imports_by_module, ms)
       ELSE v1_generated_imports_by_module
  /\ v2_generated_imports_by_module' =
       IF version = 2 THEN Touch(v2_generated_imports_by_module, ms)
       ELSE v2_generated_imports_by_module

\* the root tree
GenRootFiles ==
  /\ pc = "gen_root"
  /\ LET version == MapsVersion(args.api_version)
         ms == ModulesToRender(SymbolsOf(version), ImportsOf(version), args.output_package)
     IN  /\ \E choice \in OrderChoices(ms, iter_order, version, SymbolsOf(version), ImportsOf(version)) :
                InitFilesWritten(choice, args.output_dir, args.api_version, version,
                                 DOMAIN SymbolsOf(version), args.root_init_template, <<>>)
         /\ MapsTouched(version, ms)
  /\ pc' = "compat_loop"
  /\ compat_index' = 1
  /\ UNCHANGED << args, error, docs_by_module, nested_compat_index, nested_vars,
                  dirs, render_vars >>

\* one compat tree: makedirs and _gen_init_files, or IndexError on the template
GenCompatFiles ==
  /\ pc = "compat_loop"
  /\ compat_index <= Len(args.compat_api_versions)
  /\ LET compat_version == args.compat_api_versions[compat_index]
         compat_output_dir == CompatOutputDir(args, compat_version)
         version == MapsVersion(compat_version)
         ms == ModulesToRender(SymbolsOf(version), ImportsOf(version), args.output_package)
     IN  /\ dirs' = dirs \cup {compat_output_dir}
         /\ IF TemplateIndexError(args, compat_index)
            THEN /\ pc' = "failed"
                 /\ error' = "IndexError"
                 /\ UNCHANGED << api_vars, iter_order, files, written, nested_compat_index >>
            ELSE /\ \E choice \in OrderChoices(ms, iter_order, version, SymbolsOf(version), ImportsOf(version)) :
                        InitFilesWritten(choice, compat_output_dir, compat_version, version,
                                         DOMAIN SymbolsOf(version),
                                         CompatTemplate(args, compat_index),
                                         CompatVersionPackage(args, compat_version))
                 /\ MapsTouched(version, ms)
                 /\ pc' = "nested_loop"
                 /\ nested_compat_index' = 1
                 /\ UNCHANGED << error, docs_by_module >>
  /\ UNCHANGED << args, compat_index, nested_vars, render_vars >>

\* the nested loop is over: next compat tree
NextCompat ==
  /\ pc = "nested_loop"
  /\ nested_compat_index > Len(args.compat_api_versions)
  /\ compat_index' = compat_index + 1
  /\ pc' = "compat_loop"
  /\ UNCHANGED << args, error, api_vars, iter_order, nested_compat_index, nested_vars,
                  out_vars, render_vars >>

\* the compat loop is over: gen_public_api returns
Finish ==
  /\ pc = "compat_loop"
  /\ compat_index > Len(args.compat_api_versions)
  /\ pc' = "done"
  /\ UNCHANGED << args, error, api_vars, iter_order, compat_index, nested_compat_index,
                  nested_vars, out_vars, render_vars >>

\* ------------------------------------------------------------------------
\* gen_nested_compat_files, as called from the nested loop of gen_public_api
\* ------------------------------------------------------------------------
NestedVersion == args.compat_api_versions[nested_compat_index]

\* d with d[k] = S
SetAt(d, k, S) == [j \in (DOMAIN d) \cup {k} |-> IF j = k THEN S ELSE d[j]]

\* The copies made by .copy() are shallow: the set stored under a key of the
\* copy is the very set object of the caller's map.  A change made to the
\* compat module's set through the copy is therefore a change of the set in
\* the PublicAPI map of that version as well.
SharedCompatImports(version, S) ==
  /\ nested_generated_imports_by_module' =
       SetAt(nested_generated_imports_by_module, CompatModule(args), S)
  /\ v1_generated_imports_by_module' =
       IF version = 1 /\ CompatModule(args) \in DOMAIN v1_generated_imports_by_module
       THEN SetAt(v1_generated_imports_by_module, CompatModule(args), S)
       ELSE v1_generated_imports_by_module
  /\ v2_generated_imports_by_module' =
       IF version = 2 /\ CompatModule(args) \in DOMAIN v2_generated_imports_by_module
       THEN SetAt(v2_generated_imports_by_module, CompatModule(args), S)
       ELSE v2_generated_imports_by_module

\* makedirs, the call's arguments, the two copies and the deletion of the
\* modules other than the root and the compat module
NestedCall ==
  /\ pc = "nested_loop"
  /\ nested_compat_index <= Len(args.compat_api_versions)
  /\ LET compat_version == args.compat_api_versions[compat_index]
         version == MapsVersion(NestedVersion)
         modules_to_remove ==
           {m \in DOMAIN SymbolsOf(version) :
              m # args.output_package /\ m # CompatModule(args)}
     IN  /\ dirs' = dirs \cup {NestedCompatOutputDir(args, compat_version, NestedVersion)}
         /\ IF TemplateIndexError(args, nested_compat_index)
            THEN /\ pc' = "failed"
                 /\ error' = "IndexError"
                 /\ UNCHANGED nested_vars
            ELSE /\ nested_compat_symbols_by_module' =
                      DelKeys(SymbolsOf(version), modules_to_remove)
                 /\ nested_generated_imports_by_module' = ImportsOf(version)
                 /\ compat_imports_at_call' = DefaultGet(ImportsOf(version), CompatModule(args))
                 /\ pc' = "nested_remove"
                 /\ UNCHANGED error
  /\ UNCHANGED << args, api_vars, iter_order, compat_index, nested_compat_index,
                  files, written, render_vars >>

\* faulty variant: only the first requested edge is removed
RemoveEach_first_only(S, a, i) ==
  LET x == CompatVersionPackage(a, a.compat_api_versions[1])
  IN  IF x \notin S THEN [raised |-> TRUE, set |-> S]
      ELSE [raised |-> FALSE, set |-> S \ {x}]

\* the loop of set.remove calls; raised = KeyError
RECURSIVE RemoveEach(_, _, _)
RemoveEach(S, a, i) ==
  IF i > Len(a.compat_api_versions) THEN [raised |-> FALSE, set |-> S]
  ELSE LET x == CompatVersionPackage(a, a.compat_api_versions[i])
       IN  IF x \notin S THEN [raised |-> TRUE, set |-> S]
           ELSE RemoveEach(S \ {x}, a, i + 1)

NestedRemoveEdges ==
  /\ pc = "nested_remove"
  /\ LET version == MapsVersion(NestedVersion)
         r == RemoveEach(DefaultGet(nested_generated_imports_by_module, CompatModule(args)),
                         args, 1)
     IN  /\ SharedCompatImports(version, r.set)
         /\ iter_order' =
              [k \in (DOMAIN iter_order) \ {GeneratedImportsKey(version, CompatModule(args))} |->
                 iter_order[k]]
         /\ IF r.raised
            THEN pc' = "failed" /\ error' = "KeyError"
            ELSE pc' = "nested_render" /\ UNCHANGED error
  /\ UNCHANGED << args, v1_entrypoints_by_module, v2_entrypoints_by_module, docs_by_module,
                  compat_index, nested_compat_index, nested_compat_symbols_by_module,
                  compat_imports_at_call, out_vars, render_vars >>

\* the _gen_init_files call on the restricted copies
NestedRender ==
  /\ pc = "nested_render"
  /\ LET compat_version == args.compat_api_versions[compat_index]
         version == MapsVersion(NestedVersion)
         ms == ModulesToRender(nested_compat_symbols_by_module,
                               nested_generated_imports_by_module, args.output_package)
     IN  /\ \E choice \in OrderChoices(ms, iter_order, version, nested_compat_symbols_by_module,
                                       nested_generated_imports_by_module) :
                InitFilesWritten(choice,
                                 NestedCompatOutputDir(args, compat_version, NestedVersion),
                                 NestedVersion, version,
                                 DOMAIN nested_compat_symbols_by_module,
                                 CompatTemplate(args, nested_compat_index),
                                 CompatModule(args) \o <<DOT, "v">> \o IntStr(NestedVersion))
         /\ nested_compat_symbols_by_module' = Touch(nested_compat_symbols_by_module, ms)
         /\ nested_generated_imports_by_module' = Touch(nested_generated_imports_by_module, ms)
  /\ pc' = "nested_restore"
  /\ UNCHANGED << args, error, api_vars, compat_index, nested_compat_index,
                  compat_imports_at_call, dirs, render_vars >>

\* faulty variant: the last requested version is not added again
RestoredImports_but_last(S, a) ==
  S \cup {CompatVersionPackage(a, a.compat_api_versions[i]) :
            i \in 1..(Len(a.compat_api_versions) - 1)}

\* the loop of set.add calls
RestoredImports(S, a) == S \cup CompatPackages(a)

\* the edges are added again and gen_nested_compat_files returns
NestedRestoreEdges ==
  /\ pc = "nested_restore"
  /\ LET version == MapsVersion(NestedVersion)
         S == RestoredImports(
                DefaultGet(nested_generated_imports_by_module, CompatModule(args)), args)
     IN  /\ v1_generated_imports_by_module' =
              IF version = 1 /\ CompatModule(args) \in DOMAIN v1_generated_imports_by_module
              THEN SetAt(v1_generated_imports_by_module, CompatModule(args), S)
              ELSE v1_generated_imports_by_module
         /\ v2_generated_imports_by_module' =
              IF version = 2 /\ CompatModule(args) \in DOMAIN v2_generated_imports_by_module
              THEN SetAt(v2_generated_imports_by_module, CompatModule(args), S)
              ELSE v2_generated_imports_by_module
  /\ nested_compat_symbols_by_module' = EmptyMap
  /\ nested_generated_imports_by_module' = EmptyMap
  /\ nested_compat_index' = nested_compat_index + 1
  /\ pc' = "nested_loop"
  /\ UNCHANGED << args, error, v1_entrypoints_by_module, v2_entrypoints_by_module,
                  docs_by_module, iter_order, compat_index, compat_imports_at_call,
                  out_vars, render_vars >>

\* ------------------------------------------------------------------------
\* Stand-alone renders of one module of an aggregate (two runs of the
\* generator on the same inputs, or an eager and a lazy run)
\* ------------------------------------------------------------------------
RenderSymbols == EntrypointsByModule(args, render_in.version)

RenderImports == WithCompatEdges(add_generated_imports(RenderSymbols), args)

RenderModule ==
  /\ pc = "render"
  /\ Len(rendered) < MaxRenders
  /\ \E use_lazy_loading \in BOOLEAN,
        symbol_list \in Perms(DefaultGet(RenderSymbols, render_in.module)),
        import_list \in Perms(DefaultGet(RenderImports, render_in.module)) :
       rendered' =
         Append(rendered,
                [use_lazy_loading |-> use_lazy_loading,
                 content |->
                   _get_imports_for_module(render_in.module, args.output_package,
                                           symbol_list, import_list,
                                           args.file_prefixes_to_strip, args.module_prefix,
                                           use_lazy_loading, render_in.subpackage_rewrite)])
  /\ UNCHANGED << args, pc, error, api_vars, iter_order, compat_index, nested_compat_index,
                  nested_vars, out_vars, render_in >>

\* ------------------------------------------------------------------------
\* Initial states and specifications
\* ------------------------------------------------------------------------
BaseArgs ==
  [ symbols |-> {}, docs |-> <<>>,
    output_dir |-> S_out, output_package |-> S_ns,
    root_init_template |-> "", api_version |-> 2,
    compat_api_versions |-> <<>>, compat_init_templates |-> <<>>,
    use_lazy_loading |-> FALSE,
    file_prefixes_to_strip |-> <<>>, packages_to_ignore |-> <<>>,
    module_prefix |-> <<>>, root_file_name |-> INIT_PY ]

\* runs without compat versions: symbols, docs, ignore rules
ApiArgs ==
  { [BaseArgs EXCEPT !.symbols = s, !.docs = d, !.api_version = v,
                     !.use_lazy_loading = (v = 1),
                     !.file_prefixes_to_strip = fp, !.packages_to_ignore = ig,
                     !.module_prefix = mp] :
      s \in SubsetsUpTo(ApiSymbolPool, MaxSymbols),
      d \in SeqsUpTo(DocPool, MaxDocs),
      v \in {1, 2},
      fp \in {<<>>, <<S_g_slash>>},
      ig \in {<<>>, <<S_foo>>},
      mp \in {<<>>, S_p_dot} }

\* runs with compat versions and templates
ViewArgs ==
  { [BaseArgs EXCEPT !.symbols = s, !.api_version = v, !.use_lazy_loading = l,
                     !.root_init_template = "root.tmpl",
                     !.compat_api_versions = c, !.compat_init_templates = tp] :
      s \in SubsetsUpTo(ViewSymbolPool, MaxSymbols),
      v \in {1, 2},
      l \in BOOLEAN,
      c \in SeqsUpTo({1, 2}, MaxCompat),
      tp \in {<<>>, <<"v1.tmpl">>, <<"v1.tmpl", "v2.tmpl">>} }

InitRest ==
  /\ error = "none"
  /\ v1_entrypoints_by_module = EmptyMap
  /\ v2_entrypoints_by_module = EmptyMap
  /\ v1_generated_imports_by_module = EmptyMap
  /\ v2_generated_imports_by_module = EmptyMap
  /\ docs_by_module = [m \in {} |-> ""]
  /\ iter_order = [k \in {} |-> <<>>]
  /\ compat_index = 1
  /\ nested_compat_index = 1
  /\ nested_compat_symbols_by_module = EmptyMap
  /\ nested_generated_imports_by_module = EmptyMap
  /\ compat_imports_at_call = {}
  /\ files = [p \in {} |-> <<>>]
  /\ dirs = {}
  /\ written = {}
  /\ rendered = <<>>

NoRender == [module |-> <<>>, version |-> 2, subpackage_rewrite |-> <<>>]

Init ==
  /\ args \in ApiArgs \cup ViewArgs
  /\ pc = "get_public_api"
  /\ render_in = NoRender
  /\ InitRest

Next ==
  \/ GetPublicApi
  \/ AddCompatEdges
  \/ GenRootFiles
  \/ GenCompatFiles
  \/ NestedCall
  \/ NestedRemoveEdges
  \/ NestedRender
  \/ NestedRestoreEdges
  \/ NextCompat
  \/ Finish

Spec == Init /\ [][Next]_vars

RenderArgs ==
  { [BaseArgs EXCEPT !.symbols = s, !.compat_api_versions = <<1, 2>>] :
      s \in SubsetsUpTo(ApiSymbolPool, MaxSymbols) }

InitRender ==
  /\ args \in RenderArgs
  /\ pc = "render"
  /\ render_in \in
       { [module |-> m, version |-> v, subpackage_rewrite |-> rw] :
           v \in {1, 2},
           m \in UNION {ModulesToRender(EntrypointsByModule(a, 2),
                                        WithCompatEdges(add_generated_imports(EntrypointsByModule(a, 2)), a),
                                        a.output_package) : a \in RenderArgs},
           rw \in {<<>>, CompatVersionPackage(BaseArgs, 1)} }
  /\ render_in.module \in ModulesToRender(RenderSymbols, RenderImports, args.output_package)
  /\ InitRest

NextRender == RenderModule

SpecRender == InitRender /\ [][NextRender]_vars

\* ------------------------------------------------------------------------
\* Properties
\* ------------------------------------------------------------------------
RequestedEdges == CompatPackages(args)

CompatImports(version) == DefaultGet(ImportsOf(version), CompatModule(args))

NestedOutputDirs ==
  {NestedCompatOutputDir(args, n, m) : n \in {1, 2}, m \in {1, 2}}

\* C1: when a gen_nested_compat_files call made by gen_public_api returns,
\* the generated-import set of the compat module in the map it was given
\* equals the set at the time of the call; and when gen_public_api is done
\* the compat module of both maps has the edge to compat.v<N> for every
\* requested N.
C1_CompatEdgesRestored ==
  /\ (pc = "nested_loop" /\ nested_compat_index > 1) =>
       CompatImports(MapsVersion(args.compat_api_versions[nested_compat_index - 1]))
         = compat_imports_at_call
  /\ pc = "done" =>
       /\ RequestedEdges \subseteq DefaultGet(v1_generated_imports_by_module, CompatModule(args))
       /\ RequestedEdges \subseteq DefaultGet(v2_generated_imports_by_module, CompatModule(args))

\* every nested call for the versions <<1, 2>> has returned
C1_Witness ==
  /\ pc = "done"
  /\ args.compat_api_versions = <<1, 2>>
  /\ compat_imports_at_call = RequestedEdges
  /\ Cardinality(RequestedEdges) = 2
  /\ \A d \in NestedOutputDirs : \E w \in written : w[1] = d

\* the strict dotted-prefix ancestors of a module name
DottedPrefixes(m) == {SubSeq(m, 1, i - 1) : i \in {j \in 1..Len(m) : m[j] = DOT}}

ModulesWithEntrypoints(version) ==
  {m \in DOMAIN SymbolsOf(version) : SymbolsOf(version)[m] # {}}

\* the ancestor of m (or m itself) that is one segment longer than ancestor p
ChildToward(p, m) ==
  CHOOSE c \in DottedPrefixes(m) \cup {m} :
    /\ Len(c) > Len(p)
    /\ \A d \in DottedPrefixes(m) \cup {m} : Len(d) > Len(p) => Len(c) <= Len(d)

C3_NestedViewTwoModules ==
  \A w \in written :
    w[1] \in NestedOutputDirs => w[2] \in {args.output_package, CompatModule(args)}

\* C4: for every requested compat version N the edge compat -> compat.v<N>
\* is in the version-1 and in the version-2 import map when the root view is
\* about to be rendered and when gen_public_api is done.
C4_CompatEdgesInBothMaps ==
  pc \in {"gen_root", "done"} =>
    \A version \in {1, 2} : RequestedEdges \subseteq CompatImports(version)

\* compat version 1 was requested with primary version 2
C4_Witness ==
  /\ pc = "done"
  /\ args.api_version = 2
  /\ args.compat_api_versions = <<1>>
  /\ CompatVersionPackage(args, 1) \in CompatImports(2)

AllEntrypoints(version) == UNION {SymbolsOf(version)[m] : m \in DOMAIN SymbolsOf(version)}

\* the normalized import path of symbol s starts with an ignored package
Ignored(s) ==
  \E i \in 1..Len(args.packages_to_ignore) :
    StartsWith(_get_import_path(s.file_name, args.file_prefixes_to_strip, args.module_prefix),
               args.packages_to_ignore[i])

AfterLastDot(n) == SubSeq(n, RFind(n, DOT) + 2, Len(n))

\* C5: after get_public_api a symbol whose normalized import path starts
\* with an ignored package backs no entrypoint of either version, and every
\* other symbol backs an entrypoint for each of its version-1 names and each
\* of its version-2 names.
C5_SkipIsUnconditional ==
  pc = "add_compat_edges" =>
    \A s \in args.symbols : \A version \in {1, 2} :
      IF Ignored(s)
      THEN \A e \in AllEntrypoints(version) : e.exported_symbol # s
      ELSE \A i \in 1..Len(ApiNames(s, version)) :
             \E e \in AllEntrypoints(version) :
               e.exported_symbol = s /\ e.name = AfterLastDot(ApiNames(s, version)[i])

\* a symbol with names in both versions is skipped next to one that is kept
C5_Witness ==
  /\ pc = "add_compat_edges"
  /\ args.symbols = {SymB, SymX}
  /\ Ignored(SymB) /\ ~Ignored(SymX)
  /\ AllEntrypoints(1) # {} /\ AllEntrypoints(2) # {}

DocsConflict ==
  \E i, j \in 1..Len(args.docs) :
    i # j /\ args.docs[i].modules \cap args.docs[j].modules # {}

\* C6: get_public_api raises DocExportedTwiceError exactly when two Doc
\* records name the same module; otherwise every named module is bound to
\* the docstring of the record naming it, and no other module is bound.
C6_DocstringBinding ==
  pc # "get_public_api" =>
    /\ (error = "DocExportedTwiceError") <=> DocsConflict
    /\ ~DocsConflict =>
         /\ DOMAIN docs_by_module = UNION {args.docs[i].modules : i \in 1..Len(args.docs)}
         /\ \A i \in 1..Len(args.docs) : \A m \in args.docs[i].modules :
              docs_by_module[m] = args.docs[i].docstring

\* two records with disjoint modules were bound, the later-declared one first
C6_Witness ==
  /\ pc = "add_compat_edges"
  /\ args.docs = <<DocA, DocW>>
  /\ docs_by_module[S_ns_widgets] = "doc W"
  /\ docs_by_module[S_ns_a] = "doc A"

BoundNames(content) == {BoundName(content[i]) : i \in 1..Len(content)}

\* C7: an eager and a lazy rendering of the same module of the same
\* aggregate make the same set of names visible.
C7_EagerLazySameNames ==
  \A i, j \in 1..Len(rendered) :
    rendered[i].use_lazy_loading # rendered[j].use_lazy_loading =>
      BoundNames(rendered[i].content) = BoundNames(rendered[j].content)

\* a module with a child module, an aliased entrypoint and a rewritten
\* package was rendered both ways
C7_Witness ==
  /\ Len(rendered) = 2
  /\ ~rendered[1].use_lazy_loading /\ rendered[2].use_lazy_loading
  /\ render_in.subpackage_rewrite # <<>>
  /\ \E k \in 1..Len(rendered[1].content) : rendered[1].content[k].alias # <<>>
  /\ \E k \in 1..Len(rendered[1].content) : rendered[1].content[k].line_no = 0

\* C8: two renderings of the same module from the same inputs in the same
\* mode are the same sequence of lines.
C8_DeterministicOutput ==
  \A i, j \in 1..Len(rendered) :
    rendered[i].use_lazy_loading = rendered[j].use_lazy_loading =>
      rendered[i].content = rendered[j].content

DotPositions(n) == {i \in 1..Len(n) : n[i] = DOT}

Least(S) == CHOOSE x \in S : \A y \in S : x <= y

Greatest(S) == CHOOSE x \in S : \A y \in S : x >= y

\* the text strictly between the first and the last dot of a public name
BetweenDots(n) ==
  IF DotPositions(n) = {} THEN <<>>
  ELSE SubSeq(n, Least(DotPositions(n)) + 1, Greatest(DotPositions(n)) - 1)

ExpectedModule(n) ==
  IF BetweenDots(n) = <<>> THEN args.output_package
  ELSE args.output_package \o <<DOT>> \o BetweenDots(n)

ExpectedName(n) ==
  IF DotPositions(n) = {} THEN n ELSE SubSeq(n, Greatest(DotPositions(n)) + 1, Len(n))

BazRun ==
  /\ args.symbols = {SymBaz}
  /\ args.packages_to_ignore = <<>>
  /\ args.file_prefixes_to_strip = <<>>
  /\ args.module_prefix = <<>>
  /\ args.api_version = 2

\* C9: every public name of a symbol that is not skipped yields an
\* entrypoint whose module is the output package followed by the text
\* between the first and the last dot of the name (the output package alone
\* when that text is empty) and whose name is the text after the last dot;
\* and for the one symbol Baz of foo/bar.py exported as v2.widgets.Baz under
\* ns, the file of ns.widgets imports Baz from foo.bar (a table entry for Baz
\* in lazy mode), ns has the edge to ns.widgets and the root file of ns
\* exposes widgets.
C9_ModuleDerivation ==
  /\ pc = "add_compat_edges" =>
       \A s \in args.symbols : \A version \in {1, 2} :
         ~Ignored(s) =>
           \A i \in 1..Len(ApiNames(s, version)) :
             LET n == ApiNames(s, version)[i]
             IN  /\ ExpectedModule(n) \in DOMAIN SymbolsOf(version)
                 /\ [module |-> ExpectedModule(n), name |-> ExpectedName(n),
                     exported_symbol |-> s] \in SymbolsOf(version)[ExpectedModule(n)]
                 /\ \A e \in AllEntrypoints(version) :
                      (e.exported_symbol = s /\ e.name = ExpectedName(n)
                         /\ e.module # ExpectedModule(n))
                      => \E k \in 1..Len(ApiNames(s, version)) :
                           /\ ExpectedModule(ApiNames(s, version)[k]) = e.module
                           /\ ExpectedName(ApiNames(s, version)[k]) = e.name
  /\ (BazRun /\ pc = "compat_loop" /\ compat_index = 1) =>
       /\ S_ns_widgets \in v2_generated_imports_by_module[S_ns]
       /\ <<S_out \o <<"/", "w", "i", "d", "g", "e", "t", "s">>, INIT_PY>> \in DOMAIN files
       /\ \E k \in 1..Len(files[<<S_out \o <<"/", "w", "i", "d", "g", "e", "t", "s">>, INIT_PY>>].imports) :
            LET line == files[<<S_out \o <<"/", "w", "i", "d", "g", "e", "t", "s">>, INIT_PY>>].imports[k]
            IN  /\ line.kind = (IF args.use_lazy_loading THEN "table_entry" ELSE "from_import")
                /\ line.module = <<"f", "o", "o", ".", "b", "a", "r">>
                /\ line.name = S_Baz
                /\ BoundName(line) = S_Baz
       /\ <<S_out, INIT_PY>> \in DOMAIN files
       /\ <<"w", "i", "d", "g", "e", "t", "s">> \in BoundNames(files[<<S_out, INIT_PY>>].imports)

\* the root tree of the run with the one symbol Baz was rendered
C9_Witness ==
  /\ BazRun
  /\ pc = "compat_loop" /\ compat_index = 1
  /\ S_ns_widgets \in DOMAIN v2_entrypoints_by_module

\* C10: a run of gen_public_api that fails has written no file and created
\* no directory.
C10_NoPartialSuccess ==
  pc = "failed" => (DOMAIN files = {} /\ dirs = {})

\* the modules of the root tree, once _gen_init_files has written it
RootModules ==
  ModulesToRender(SymbolsOf(MapsVersion(args.api_version)),
                  ImportsOf(MapsVersion(args.api_version)), args.output_package)

\* the file of module m in the root tree
RootFile(m) ==
  files[ModuleFilePath(m, args.output_dir, args.output_package, args.root_file_name)]

\* an entry named lite is among the direct entrypoints of module m
HasLiteEntry(m) ==
  \E e \in DefaultGet(SymbolsOf(MapsVersion(args.api_version)), m) : e.name = LITE

\* C11: in every file of the root tree the wrapper descriptor is empty iff
\* api_version is not 1 and lazy loading is off, and an emitted descriptor has
\* has_lite True exactly when an entry named lite is among the direct
\* entrypoints of the module the file is rendered for.
C11_HasLiteIffLiteEntry ==
  (pc = "compat_loop" /\ compat_index = 1) =>
    \A m \in RootModules :
      /\ ~RootFile(m).wrapper.emitted <=> (args.api_version # 1 /\ ~args.use_lazy_loading)
      /\ RootFile(m).wrapper.emitted => (RootFile(m).wrapper.has_lite <=> HasLiteEntry(m))

\* the first loop of gen_public_api has added the compat edges
EdgesAdded == pc \notin {"get_public_api", "add_compat_edges"}

\* between the set.remove loop and the set.add loop of a
\* gen_nested_compat_files call (a KeyError of the remove loop ends the run
\* there)
InRemovalWindow ==
  \/ pc \in {"nested_render", "nested_restore"}
  \/ pc = "failed" /\ error = "KeyError"

\* the names bound by the lines of the file written for the compat module
\* in the tree under output directory d
CompatFileNames(d) ==
  LET f == files[ModuleFilePath(CompatModule(args), d, args.output_package, args.root_file_name)]
  IN  {BoundName(f.imports[i]) : i \in 1..Len(f.imports)}

\* the child names v<N> of the requested compat versions
RequestedChildNames ==
  {<<"v">> \o IntStr(args.compat_api_versions[i]) : i \in 1..Len(args.compat_api_versions)}

\* the output directories of the trees that have a compat module written
CompatFileDirs == {w[1] : w \in {x \in written : x[2] = CompatModule(args)}}

\* the output directory of the nested tree of the current call
CurrentNestedDir ==
  NestedCompatOutputDir(args, args.compat_api_versions[compat_index], NestedVersion)

\* C12: once added, the edges compat -> compat.v<N> of the requested versions
\* are in both import maps whenever the root tree or a compat tree is about
\* to be rendered, and are missing from a map only between the removal and
\* the re-adding step of a gen_nested_compat_files call, and then only from
\* the map of that call; the compat file of the root tree and of every compat
\* tree exposes every child v<N>, the compat file of a nested tree exposes
\* none; and a step taken inside the window writes only files of that nested
\* tree.
C12_RemovalConfined ==
  /\ [](/\ (EdgesAdded /\ ~InRemovalWindow) =>
             \A version \in {1, 2} : RequestedEdges \subseteq CompatImports(version)
        /\ InRemovalWindow =>
             RequestedEdges \subseteq CompatImports(3 - MapsVersion(NestedVersion))
        /\ \A d \in CompatFileDirs :
             IF d \in NestedOutputDirs
             THEN CompatFileNames(d) \cap RequestedChildNames = {}
             ELSE RequestedChildNames \subseteq CompatFileNames(d))
  /\ [][(InRemovalWindow /\ written' # written) =>
          /\ RequestedEdges \cap CompatImports(MapsVersion(NestedVersion)) = {}
          /\ \A w \in written' \ written : w[1] = CurrentNestedDir]_vars

\* inside the window of a nested call for the versions <<1, 2>>: the nested
\* tree is written, its compat file is there, and the map of the call has
\* lost both edges while the root and compat trees written before have them
C12_Witness ==
  /\ pc = "nested_restore"
  /\ args.compat_api_versions = <<1, 2>>
  /\ RequestedEdges \cap CompatImports(MapsVersion(NestedVersion)) = {}
  /\ CurrentNestedDir \in CompatFileDirs
  /\ args.output_dir \in CompatFileDirs
  /\ RequestedChildNames \subseteq CompatFileNames(args.output_dir)

====
